---- MODULE Spec2Model ----
(***************************************************************************)
(* Model of the BJJ analysis backend (src/main.py): the job registry       *)
(* db_storage, the background task analyze_video_task, the synchronous     *)
(* endpoint analyze_complete, the polling endpoint get_status, and the     *)
(* result pipeline fast_accurate_analysis (extract_json_from_text,         *)
(* validate_analysis, attach_frames_to_events, AnalysisResult).            *)
(*                                                                         *)
(* Coroutines run on one asyncio event loop: the code between two awaits   *)
(* is one atomic action.  The two run_in_executor calls (frame extraction  *)
(* and the model call) run in worker threads and are actions of their own. *)
(***************************************************************************)
EXTENDS Integers, Sequences, FiniteSets, TLC

(***************************************************************************)
(* Bounds of the model.                                                    *)
(***************************************************************************)
\* number of analysis ids (uuid4 values) the registry can hand out
MaxJobs == 2
\* number of files /upload can create
MaxUploads == 1

JobIds == 1..MaxJobs
\* temp file names: 1..MaxUploads are made by /upload; analyze_complete of
\* job j writes its own uuid-named file, FileOfSync(j)
FileOfSync(j) == MaxUploads + j
UploadNames == 1..MaxUploads
FileNames == 1..(MaxUploads + MaxJobs)

(***************************************************************************)
(* JSON values.  Objects are records, lists are sequences.  Scalars whose  *)
(* type the code depends on carry a tag, so that a string where a number   *)
(* is expected can be told apart (and raises, as in Python).               *)
(***************************************************************************)
Num(n) == [t |-> "num", v |-> n]
Str(s) == [t |-> "str", v |-> s]
Null == [t |-> "null"]
\* base64.b64encode(bytes).decode("utf-8")
B64(bytes) == [t |-> "b64", of |-> bytes]

EmptyObj == [f \in {} |-> Null]
Has(d, k) == k \in DOMAIN d
\* d[k] = v on a dict
Put(d, k, v) == [f \in DOMAIN d \cup {k} |-> IF f = k THEN v ELSE d[f]]
\* d.get(k, default)
Get(d, k, default) == IF k \in DOMAIN d THEN d[k] ELSE default
Restrict(d, ks) == [f \in DOMAIN d \cap ks |-> d[f]]

Max2(a, b) == IF a >= b THEN a ELSE b
Min2(a, b) == IF a <= b THEN a ELSE b
SetMin(S) == CHOOSE m \in S : \A o \in S : m <= o

(***************************************************************************)
(* parse_time_to_seconds: re.search(r"(\d{1,2}):(\d{2})", time_str) on a   *)
(* string given as its sequence of characters.  NoTime stands for None.    *)
(***************************************************************************)
NoTime == -1
Digits == <<"0", "1", "2", "3", "4", "5", "6", "7", "8", "9">>
IsDigit(c) == \E i \in 1..10 : Digits[i] = c
DigitVal(c) == (CHOOSE i \in 1..10 : Digits[i] = c) - 1

\* the pattern matches at position i with n digits of minutes
MatchAt(s, i, n) ==
    /\ i + n + 2 <= Len(s)
    /\ \A k \in i..(i + n - 1) : IsDigit(s[k])
    /\ s[i + n] = ":"
    /\ IsDigit(s[i + n + 1])
    /\ IsDigit(s[i + n + 2])

\* re.search raises TypeError on a time that is a number other than 0
ParseTimeRaises(time) == time.t = "num" /\ time.v # 0

parse_time_to_seconds(time) ==
    IF time.t # "str" \/ time.v = <<>> THEN NoTime
    ELSE LET s == time.v
             starts == {i \in 1..Len(s) : MatchAt(s, i, 2) \/ MatchAt(s, i, 1)}
         IN  IF starts = {} THEN NoTime
             ELSE LET i == SetMin(starts)
                      n == IF MatchAt(s, i, 2) THEN 2 ELSE 1
                      mm == IF n = 2 THEN 10 * DigitVal(s[i]) + DigitVal(s[i + 1])
                                     ELSE DigitVal(s[i])
                      ss == 10 * DigitVal(s[i + n + 1]) + DigitVal(s[i + n + 2])
                  IN  mm * 60 + ss

Abs(x) == IF x < 0 THEN -x ELSE x

\* mutant of find_closest_frame: of two frames equally close, the later one
find_closest_frame_last(target_time_sec, frames) ==
    LET key(i) == Abs(frames[i].second - 100 * target_time_sec)
        best == CHOOSE i \in 1..Len(frames) :
                    /\ \A k \in 1..Len(frames) : key(i) <= key(k)
                    /\ \A k \in (i + 1)..Len(frames) : key(i) < key(k)
    IN  frames[best]

\* min(frames, key=...): the first frame of the sequence with the least key;
\* the field second of a frame is a number of hundredths of a second
find_closest_frame(target_time_sec, frames) ==
    LET key(i) == Abs(frames[i].second - 100 * target_time_sec)
        best == SetMin({i \in 1..Len(frames) :
                          \A k \in 1..Len(frames) : key(i) <= key(k)})
    IN  frames[best]

\* the try block of attach_frames_to_events raises for this event: the time
\* is not a string, or min() is handed an empty sequence
AttachRaises(event, frames) ==
    LET time == Get(event, "time", Null)
    IN  \/ ParseTimeRaises(time)
        \/ parse_time_to_seconds(time) # NoTime /\ frames = <<>>

\* the body of the for loop of attach_frames_to_events for one event
AttachOne(event, frames) ==
    LET event_time_sec == parse_time_to_seconds(Get(event, "time", Null))
    IN  IF AttachRaises(event, frames) THEN Put(event, "frame_image", Null)
        ELSE IF event_time_sec = NoTime THEN event
        ELSE LET closest == find_closest_frame(event_time_sec, frames)
             IN  Put(Put(event, "frame_timestamp", closest.timestamp),
                     "frame_image", B64(closest.bytes))

\* mutant of attach_frames_to_events: the first exception ends the loop
attach_frames_to_events_aborting(events, frames) ==
    LET failed == {i \in 1..Len(events) : AttachRaises(events[i], frames)}
    IN  [i \in 1..Len(events) |->
           IF \E k \in failed : k < i THEN events[i]
           ELSE AttachOne(events[i], frames)]

attach_frames_to_events(events, frames) ==
    [i \in 1..Len(events) |-> AttachOne(events[i], frames)]

(***************************************************************************)
(* Raw model text, as a sequence of tokens: braces, the members of a JSON  *)
(* object (carrying the object they denote), whitespace, prose words, the  *)
(* code fence (three backticks) and the tag json that may follow it.  QLB  *)
(* and QRB are a member of an object whose string value is a brace.        *)
(***************************************************************************)
LB == [k |-> "{"]
RB == [k |-> "}"]
QLB == [k |-> "quoted {"]
QRB == [k |-> "quoted }"]
WS == [k |-> "ws"]
Word == [k |-> "word"]
Fence == [k |-> "fence"]
JsonTag == [k |-> "json"]
Members(o) == [k |-> "members", o |-> o]

SnippetLen == 300

RECURSIVE StripLeft(_)
StripLeft(text) ==
    IF text # <<>> /\ Head(text) = WS THEN StripLeft(Tail(text)) ELSE text
RECURSIVE StripRight(_)
StripRight(text) ==
    IF text # <<>> /\ text[Len(text)] = WS
    THEN StripRight(SubSeq(text, 1, Len(text) - 1)) ELSE text
\* str.strip()
Strip(text) == StripRight(StripLeft(text))

Raised(msg) == [ok |-> FALSE, msg |-> msg]
Returned(val) == [ok |-> TRUE, val |-> val]

\* the characters text[i] == '{' and text[i] == '}' see, in a string or not
IsOpenBrace(tok) == tok \in {LB, QLB}
IsCloseBrace(tok) == tok \in {RB, QRB}

\* the object that the members between two braces denote: a later member
\* replaces an earlier one of the same key, whitespace counts for nothing
RECURSIVE ObjectOf(_)
ObjectOf(body) ==
    IF body = <<>> THEN EmptyObj
    ELSE LET m == body[Len(body)]
             rest == ObjectOf(SubSeq(body, 1, Len(body) - 1))
         IN  IF m = WS THEN rest
             ELSE IF m.k = "members" THEN m.o @@ rest
             ELSE Put(rest, "quoted", Str(<<IF m = QLB THEN "{" ELSE "}">>))

\* json.loads: one JSON value with optional whitespace around it; the only
\* values these texts can hold are objects
json_loads(text) ==
    LET s == Strip(text)
    IN  IF /\ Len(s) >= 2 /\ s[1] = LB /\ s[Len(s)] = RB
           /\ \A i \in 2..(Len(s) - 1) :
                  s[i].k \in {"members", "quoted {", "quoted }", "ws"}
        THEN Returned(ObjectOf(SubSeq(s, 2, Len(s) - 1)))
        ELSE Raised("JSONDecodeError")

\* the positions where the fence (followed by the tag, when tagged) starts
FenceAt(text, i, tagged) ==
    /\ i <= Len(text)
    /\ text[i] = Fence
    /\ tagged => (i + 1 <= Len(text) /\ text[i + 1] = JsonTag)
HasFence(text, tagged) == \E i \in 1..Len(text) : FenceAt(text, i, tagged)

\* text.split(sep)[1].split(fence)[0], sep being the tagged or the bare fence
FencedContent(text, tagged) ==
    LET i == SetMin({p \in 1..Len(text) : FenceAt(text, p, tagged)})
        after == SubSeq(text, i + (IF tagged THEN 2 ELSE 1), Len(text))
        ends == {p \in 1..Len(after) : after[p] = Fence}
    IN  IF ends = {} THEN after ELSE SubSeq(after, 1, SetMin(ends) - 1)

\* brace_count after the characters start_idx..i of text
BraceCount(text, start_idx, i) ==
    Cardinality({p \in start_idx..i : IsOpenBrace(text[p])})
      - Cardinality({p \in start_idx..i : IsCloseBrace(text[p])})

\* third step: from the first opening brace to the brace that closes it
BraceScan(text) ==
    LET opens == {p \in 1..Len(text) : IsOpenBrace(text[p])}
    IN  IF opens = {} THEN Raised("No opening brace")
        ELSE LET start_idx == SetMin(opens)
                 closes == {p \in start_idx..Len(text) :
                              IsCloseBrace(text[p]) /\ BraceCount(text, start_idx, p) = 0}
             IN  IF closes = {} THEN Raised("No closing brace")
                 ELSE json_loads(SubSeq(text, start_idx, SetMin(closes)))

extract_json_from_text(raw) ==
    LET text == Strip(raw)
        direct == json_loads(text)
        fenced == HasFence(text, FALSE)
        \* step two rebinds text to the fenced content before parsing it
        text2 == IF fenced THEN FencedContent(text, HasFence(text, TRUE)) ELSE text
        inFence == IF fenced THEN json_loads(Strip(text2)) ELSE Raised("no fence")
        scanned == BraceScan(text2)
    IN  IF direct.ok THEN direct
        ELSE IF inFence.ok THEN inFence
        ELSE IF scanned.ok THEN scanned
        ELSE Raised(SubSeq(text2, 1, Min2(SnippetLen, Len(text2))))

(***************************************************************************)
(* validate_analysis: schema defaulting, field by field, in source order.  *)
(* max(0, min(100, x)) raises TypeError when x is not a number.            *)
(***************************************************************************)
MinNotesLen == 50

DefaultStrengths == <<"Good structure", "Showed awareness", "Consistent">>
DefaultWeaknesses == <<"More aggression", "Improve timing", "Work transitions">>
PlaceholderEvent ==
    [time |-> Str(<<"0", "0", ":", "3", "0">>), title |-> "Key Moment",
     description |-> "Review footage", category |-> "POSITION"]
DefaultNotes == "Focus on fundamentals and consistent positioning."
DefaultDrills ==
    << [name |-> "Position Control", focus_area |-> "General",
        reason |-> "Improve awareness", duration |-> "15 min/day",
        frequency |-> "5x/week"],
       [name |-> "Guard Work", focus_area |-> "Defense",
        reason |-> "Strengthen defense", duration |-> "10 min/day",
        frequency |-> "4x/week"],
       [name |-> "Transitions", focus_area |-> "Movement",
        reason |-> "Improve flow", duration |-> "12 min/day",
        frequency |-> "3x/week"] >>

Clamp(x) == Max2(0, Min2(100, x))

\* mutant of LabelOf: the thresholds exclude their own value
LabelOfStrict(score) ==
    IF score > 85 THEN "EXCELLENT PERFORMANCE"
    ELSE IF score > 75 THEN "STRONG PERFORMANCE"
    ELSE IF score > 60 THEN "SOLID PERFORMANCE"
    ELSE "DEVELOPING PERFORMANCE"

LabelOf(score) ==
    IF score >= 85 THEN "EXCELLENT PERFORMANCE"
    ELSE IF score >= 75 THEN "STRONG PERFORMANCE"
    ELSE IF score >= 60 THEN "SOLID PERFORMANCE"
    ELSE "DEVELOPING PERFORMANCE"

ValidateScore(data) ==
    LET d == IF ~Has(data, "overall_score")
             THEN Put(data, "overall_score", Num(65)) ELSE data
    IN  Put(d, "overall_score", Num(Clamp(d.overall_score.v)))

ValidateLabel(data) ==
    IF ~Has(data, "performance_label")
    THEN Put(data, "performance_label", LabelOf(data.overall_score.v)) ELSE data

ValidateGrades(data) ==
    IF ~Has(data, "performance_grades")
    THEN Put(data, "performance_grades",
             [defense_grade |-> "C+", offense_grade |-> "C", control_grade |-> "C+"])
    ELSE data

ValidateSkills(data) ==
    IF ~Has(data, "skill_breakdown")
    THEN LET base == data.overall_score.v
         IN  Put(data, "skill_breakdown",
                 [offense |-> Clamp(base - 5), defense |-> Clamp(base + 3),
                  guard |-> Clamp(base - 2), passing |-> Clamp(base - 10),
                  standup |-> Clamp(base - 13)])
    ELSE data

\* mutant of ValidateList: a short list is padded with defaults
ValidateListPadded(data, field, default) ==
    LET given == IF Has(data, field) THEN data[field] ELSE <<>>
    IN  Put(data, field, SubSeq(given \o default, 1, 3))

ValidateList(data, field, default) ==
    LET d == IF ~Has(data, field) \/ Len(data[field]) < 3
             THEN Put(data, field, default) ELSE data
    IN  Put(d, field, SubSeq(d[field], 1, Min2(3, Len(d[field]))))

ValidateEvents(data, field) ==
    IF ~Has(data, field) \/ data[field] = <<>>
    THEN Put(data, field, <<PlaceholderEvent>>) ELSE data

\* mutant of ValidateNotes: notes of exactly the minimum length are replaced
ValidateNotesStrict(data) ==
    IF ~Has(data, "coach_notes") \/ Len(data.coach_notes) <= MinNotesLen
    THEN Put(data, "coach_notes", DefaultNotes) ELSE data

ValidateNotes(data) ==
    IF ~Has(data, "coach_notes") \/ Len(data.coach_notes) < MinNotesLen
    THEN Put(data, "coach_notes", DefaultNotes) ELSE data

ValidateDrills(data) ==
    IF ~Has(data, "recommended_drills") \/ Len(data.recommended_drills) < 3
    THEN Put(data, "recommended_drills", DefaultDrills) ELSE data

\* the TypeError of max(0, min(100, data["overall_score"]))
ValidateRaises(data) ==
    Has(data, "overall_score") /\ data.overall_score.t # "num"

validate_analysis(data) ==
    ValidateDrills(ValidateNotes(
      ValidateEvents(ValidateEvents(
        ValidateList(ValidateList(
          ValidateSkills(ValidateGrades(ValidateLabel(ValidateScore(data)))),
          "strengths", DefaultStrengths),
          "weaknesses", DefaultWeaknesses),
        "missed_opportunities"), "key_moments")))

(***************************************************************************)
(* AnalysisResult(data).model_dump(): pydantic raises when a required    *)
(* field of a nested model is missing, drops unknown top-level keys and    *)
(* fills the Optional fields of events and drills with their defaults.     *)
(***************************************************************************)
ResultFields ==
    {"overall_score", "performance_label", "performance_grades",
     "skill_breakdown", "strengths", "weaknesses", "missed_opportunities",
     "key_moments", "coach_notes", "recommended_drills"}
EventRequired == {"time", "title", "description"}
DrillRequired == {"name", "focus_area", "reason"}

EventsOk(seq) == \A i \in 1..Len(seq) : EventRequired \subseteq DOMAIN seq[i]
DrillsOk(seq) == \A i \in 1..Len(seq) : DrillRequired \subseteq DOMAIN seq[i]

ConstructRaises(data) ==
    \/ ~(ResultFields \subseteq DOMAIN data)
    \/ ~EventsOk(data.missed_opportunities)
    \/ ~EventsOk(data.key_moments)
    \/ ~DrillsOk(data.recommended_drills)
    \/ ~({"offense", "defense", "guard", "passing", "standup"}
           \subseteq DOMAIN data.skill_breakdown)
    \/ ~({"defense_grade", "offense_grade", "control_grade"}
           \subseteq DOMAIN data.performance_grades)

WithDefault(d, k, v) == IF Has(d, k) THEN d ELSE Put(d, k, v)

DumpEvent(e) ==
    WithDefault(WithDefault(WithDefault(e, "category", "GENERAL"),
                            "frame_image", Null), "frame_timestamp", Null)
DumpDrill(d) ==
    WithDefault(WithDefault(Restrict(d, DrillRequired \cup {"duration", "frequency"}),
                            "duration", "15 min/day"), "frequency", "5x/week")

\* AnalysisResult(data).model_dump(), for data that constructs
model_dump(data) ==
    LET r == Restrict(data, ResultFields)
    IN  [r EXCEPT
           !.missed_opportunities = [i \in 1..Len(@) |-> DumpEvent(@[i])],
           !.key_moments = [i \in 1..Len(@) |-> DumpEvent(@[i])],
           !.recommended_drills = [i \in 1..Len(@) |-> DumpDrill(@[i])]]

generate_fallback ==
    [overall_score |-> Num(65),
     performance_label |-> "SOLID PERFORMANCE",
     performance_grades |->
        [defense_grade |-> "C+", offense_grade |-> "C", control_grade |-> "C+"],
     skill_breakdown |->
        [offense |-> 60, defense |-> 68, guard |-> 63, passing |-> 55, standup |-> 52],
     strengths |-> <<"Maintained defensive structure",
                     "Showed positional awareness", "Consistent movement">>,
     weaknesses |-> <<"Could be more aggressive",
                      "Improve transition recognition", "Work on timing">>,
     missed_opportunities |->
        << [time |-> Str(<<"0", "0", ":", "3", "0">>), title |-> "Position",
            description |-> "Review for openings", category |-> "POSITION"] >>,
     key_moments |->
        << [time |-> Str(<<"0", "0", ":", "1", "5">>), title |-> "Exchange",
            description |-> "Positional work", category |-> "TRANSITION"] >>,
     coach_notes |-> "Focus on fundamentals: maintain posture, control distance, look for position improvement.",
     recommended_drills |->
        << [name |-> "Positional Sparring", focus_area |-> "General",
            reason |-> "Develop awareness", duration |-> "15 min/day",
            frequency |-> "5x/week"],
           [name |-> "Guard Work", focus_area |-> "Defense",
            reason |-> "Strengthen defense", duration |-> "10 min/day",
            frequency |-> "4x/week"],
           [name |-> "Position Control", focus_area |-> "Control",
            reason |-> "Improve control", duration |-> "12 min/day",
            frequency |-> "3x/week"] >>]

(***************************************************************************)
(* extract_smart_weighted_frames.  A video is what cv2 reports of the file *)
(* and what it can decode: whether it opens, CAP_PROP_FPS (frames a        *)
(* second, 0 when the container does not say), CAP_PROP_FRAME_COUNT, and   *)
(* the positions at which cap.read() succeeds.  Times that the code rounds *)
(* to two decimals are numbers of hundredths of a second; the products by  *)
(* 0.20, 0.25, 0.40 and 0.80 are computed exactly.                         *)
(***************************************************************************)
\* f"{int(timestamp_sec // 60):02d}:{int(timestamp_sec % 60):02d}", for the
\* whole seconds sec = floor(timestamp_sec)
TimestampStr(sec) ==
    LET mm == sec \div 60
        ss == sec % 60
        d(n) == Digits[n + 1]
        minutes == IF mm >= 0 THEN << d((mm \div 10) % 10), d(mm % 10) >>
                   ELSE << "-", d((-mm) % 10) >>
    IN  Str(minutes \o << ":", d(ss \div 10), d(ss % 10) >>)

\* round(n / d, 0) for d > 0: the nearest integer, a tie going to the even one
RoundDiv(n, d) ==
    LET q == (2 * n + d) \div (2 * d)
    IN  IF (2 * n + d) % (2 * d) = 0 /\ q % 2 = 1 THEN q - 1 ELSE q

\* extract_frame_at_index: None (Null) when cap.read() fails, and when
\* frame_idx / fps divides by zero, which the function's own except swallows
extract_frame_at_index(video, frame_idx) ==
    IF frame_idx \notin video.readable THEN Null
    ELSE IF video.fps = 0 THEN Null
    ELSE [bytes |-> frame_idx,
          timestamp |-> TimestampStr(frame_idx \div video.fps),
          second |-> RoundDiv(100 * frame_idx, video.fps),
          frame_idx |-> frame_idx]

\* duration <= secs, duration being total_frames / fps if fps > 0 else 0
DurationAtMost(video, secs) ==
    video.fps = 0 \/ video.total_frames <= secs * video.fps

\* mutant of TotalToExtract: the tiers exclude their upper ends
TotalToExtractStrict(video) ==
    IF video.fps = 0 \/ video.total_frames < 30 * video.fps THEN 14
    ELSE IF video.total_frames < 60 * video.fps THEN 16
    ELSE 18

TotalToExtract(video) ==
    IF DurationAtMost(video, 30) THEN 14
    ELSE IF DurationAtMost(video, 60) THEN 16
    ELSE 18

\* max(4, int(total_to_extract * 0.25))
StartFrames(total_to_extract) == Max2(4, (total_to_extract * 25) \div 100)
\* max(6, int(total_to_extract * 0.40))
EndFrames(total_to_extract) == Max2(6, (total_to_extract * 40) \div 100)
MiddleFrames(total_to_extract) ==
    total_to_extract - StartFrames(total_to_extract) - EndFrames(total_to_extract)

\* int(total_frames * 0.20) and int(total_frames * 0.80)
StartSectionEnd(video) == (video.total_frames * 20) \div 100
EndSectionStart(video) == (video.total_frames * 80) \div 100

\* the tests on f["second"] of the three loops: against duration * 0.20 and
\* duration * 0.80 (frames exist only when fps > 0)
InSection(video, frame, section) ==
    LET x == frame.second * video.fps
        lo == 20 * video.total_frames
        hi == 80 * video.total_frames
    IN  IF section = "start" THEN x < lo
        ELSE IF section = "middle" THEN lo <= x /\ x < hi
        ELSE x >= hi

\* one of the three for loops, from index i on: for i in range(i, stop,
\* interval), leaving the loop once the section holds its quota of frames
RECURSIVE SampleSection(_, _, _, _, _, _, _)
SampleSection(video, frames, i, stop, interval, section, quota) ==
    IF i >= stop THEN frames
    ELSE IF Cardinality({k \in 1..Len(frames) :
                            InSection(video, frames[k], section)}) >= quota
         THEN frames
    ELSE LET frame == extract_frame_at_index(video, i)
         IN  SampleSection(video,
                           IF frame = Null THEN frames ELSE Append(frames, frame),
                           i + interval, stop, interval, section, quota)

\* the bonus step: the frame at total_frames - 1, unless it is in the list
AddLastFrame(video, frames) ==
    LET last_frame == extract_frame_at_index(video, video.total_frames - 1)
    IN  IF last_frame # Null /\ \A k \in 1..Len(frames) : frames[k] # last_frame
        THEN Append(frames, last_frame) ELSE frames

\* frames.sort(key=lambda f: f["second"]): a stable sort, by insertion
RECURSIVE InsertBySecond(_, _)
InsertBySecond(sorted, frame) ==
    IF sorted = <<>> THEN <<frame>>
    ELSE IF sorted[Len(sorted)].second <= frame.second THEN Append(sorted, frame)
    ELSE Append(InsertBySecond(SubSeq(sorted, 1, Len(sorted) - 1), frame),
                sorted[Len(sorted)])
RECURSIVE SortBySecond(_)
SortBySecond(frames) ==
    IF frames = <<>> THEN <<>>
    ELSE InsertBySecond(SortBySecond(SubSeq(frames, 1, Len(frames) - 1)),
                        frames[Len(frames)])

\* the frames list when cap.release() is reached
SampledFrames(video) ==
    LET total == TotalToExtract(video)
        sse == StartSectionEnd(video)
        ess == EndSectionStart(video)
        s1 == SampleSection(video, <<>>, 0, sse,
                            Max2(1, sse \div StartFrames(total)),
                            "start", StartFrames(total))
        s2 == SampleSection(video, s1, sse, ess,
                            Max2(1, (ess - sse) \div MiddleFrames(total)),
                            "middle", MiddleFrames(total))
        s3 == SampleSection(video, s2, ess, video.total_frames,
                            Max2(1, (video.total_frames - ess) \div EndFrames(total)),
                            "end", EndFrames(total))
    IN  AddLastFrame(video, s3)

SamplerMetadata(video, frames) ==
    [duration |-> IF video.fps = 0 THEN 0
                  ELSE RoundDiv(100 * video.total_frames, video.fps),
     fps |-> 100 * video.fps,
     frames_extracted |-> Len(frames),
     distribution |->
        [start |-> StartFrames(TotalToExtract(video)),
         middle |-> MiddleFrames(TotalToExtract(video)),
         end |-> EndFrames(TotalToExtract(video))]]

\* mutant of SamplerRaises: the duration is divided out without the test
\* on fps
SamplerRaisesOnZeroRate(video) == ~video.opens \/ video.fps = 0

\* the raise of the try block: only "Cannot open video"
SamplerRaises(video) == ~video.opens

extract_smart_weighted_frames(video) ==
    IF SamplerRaises(video) THEN Raised("Frame extraction failed")
    ELSE LET frames == SortBySecond(SampledFrames(video))
         IN  Returned([frames |-> frames,
                       metadata |-> SamplerMetadata(video, frames)])

(***************************************************************************)
(* Inputs of the pipeline.                                                 *)
(***************************************************************************)
\* a 50-second video of one frame a second of which cv2 decodes three frames
SampleVideo ==
    [opens |-> TRUE, fps |-> 1, total_frames |-> 50, readable |-> {2, 10, 40}]

\* what extract_smart_weighted_frames returns for a video that opens: its
\* frames in ascending order of time
SamplerOutputs == { extract_smart_weighted_frames(SampleVideo).val.frames }

EventAt(chars, title) ==
    [time |-> Str(chars), title |-> title, description |-> "d"]

ObjScoreOnly == [overall_score |-> Num(150)]
ObjBadScore == [overall_score |-> Str("85")]
ObjBadEvent == [key_moments |-> << [time |-> Str(<<"0", "0", ":", "0", "9">>)] >>]
ObjFull ==
    [overall_score |-> Num(82),
     performance_label |-> "STRONG PERFORMANCE",
     performance_grades |->
        [defense_grade |-> "B", offense_grade |-> "B+", control_grade |-> "B"],
     skill_breakdown |->
        [offense |-> 85, defense |-> 78, guard |-> 70, passing |-> 66, standup |-> 60],
     strengths |-> <<"s1", "s2", "s3">>,
     weaknesses |-> <<"w1", "w2", "w3">>,
     missed_opportunities |-> << EventAt(<<"0", "0", ":", "0", "9">>, "Sweep") >>,
     key_moments |-> << EventAt(<<"s", "o", "o", "n">>, "Grip"),
                        EventAt(<<"0", ":", "3", "9">>, "Tap") >>,
     coach_notes |-> "You finished the armbar cleanly; keep the elbows tight when passing.",
     recommended_drills |->
        << [name |-> "d1", focus_area |-> "a", reason |-> "r"],
           [name |-> "d2", focus_area |-> "a", reason |-> "r"],
           [name |-> "d3", focus_area |-> "a", reason |-> "r"] >>]

\* response.text of the model: empty, a fenced object, bare objects, an
\* object after a word of prose
RespEmpty == <<>>
RespFenced == <<Fence, JsonTag, WS, LB, Members(ObjScoreOnly), RB, WS, Fence>>
RespBadScore == <<LB, Members(ObjBadScore), RB>>
RespBadEvent == <<Word, WS, LB, Members(ObjBadEvent), RB>>
RespFull == <<LB, Members(ObjFull), RB, WS>>
ModelResponses == {RespEmpty, RespFenced, RespBadScore, RespBadEvent, RespFull}

(***************************************************************************)
(* State.                                                                  *)
(***************************************************************************)
VARIABLES
    db,         \* db_storage: analysis id -> record (a dict)
    files,      \* the files that exist under temp_videos/
    uploads,    \* how many files /upload has written (their names: 1..uploads)
    pc,         \* where the coroutine of each analysis id stands
    kind,       \* which endpoint created the id: "analyze" or "analyze_complete"
    path,       \* video_path / file_path of the id
    extracted,  \* what extract_smart_weighted_frames returned or raised
    reply,      \* what model.generate_content returned or raised
    response,   \* the HTTP response of analyze_complete
    polled,     \* the HTTP response get_status is sending (Null: none)
    attempts,   \* history: calls of model.generate_content made for the id
    cleanups,   \* history: calls of os.remove made by the id's finally block
    removed,    \* history: how many times each file was actually removed
    call,       \* a function of the pipeline called on its own: name, argument
    ret         \* what that call returned or raised (Pending: not run yet)

vars == <<db, files, uploads, pc, kind, path, extracted, reply, response,
          polled, attempts, cleanups, removed, call, ret>>
\* the variables of a function called on its own
unitVars == <<call, ret>>
\* the variables of the server
serverVars == <<db, files, uploads, pc, kind, path, extracted, reply, response,
                polled, attempts, cleanups, removed>>

Pending == [ok |-> FALSE, msg |-> "pending"]
NoCall == [fn |-> "none"]

ProgressAccepted == 10
ProgressSampled == 50
ProgressModelReturned == 90
ProgressAttached == 100

\* the server after start-up: an empty registry, no file, no request
ServerInit ==
    /\ db = EmptyObj
    /\ files = {}
    /\ uploads = 0
    /\ pc = [j \in JobIds |-> "none"]
    /\ kind = [j \in JobIds |-> "none"]
    /\ path = [j \in JobIds |-> 0]
    /\ extracted = [j \in JobIds |-> Pending]
    /\ reply = [j \in JobIds |-> Pending]
    /\ response = [j \in JobIds |-> Null]
    /\ polled = Null
    /\ attempts = [j \in JobIds |-> 0]
    /\ cleanups = [j \in JobIds |-> 0]
    /\ removed = [f \in FileNames |-> 0]

Init ==
    /\ ServerInit
    /\ call = NoCall
    /\ ret = Pending

\* str(uuid.uuid4()): an id the registry does not hold yet
FreshIds == {j \in JobIds : ~Has(db, j) /\ \A i \in 1..(j - 1) : Has(db, i)}

(***************************************************************************)
(* The records the handlers write.                                         *)
(***************************************************************************)
\* start_analysis: db_storage[analysis_id] = {...}
NewQueuedRecord == [status |-> "queued", progress |-> 0]
\* analyze_complete: db_storage[analysis_id] = {...}
NewSyncRecord == [status |-> "processing", progress |-> 0]

\* analyze_video_task, the first two lines of the try block
TaskStarted(rec) ==
    Put(Put(rec, "status", "processing"), "progress", ProgressAccepted)

\* mutants of TaskExcept: a handler that stores the fallback without the
\* status, and one that reports a failure status of its own
TaskExceptLeavesStatus(rec) ==
    Put(Put(rec, "data", generate_fallback), "used_fallback", TRUE)
TaskExceptFailed(rec) ==
    Put(Put(Put(rec, "status", "failed"), "data", generate_fallback),
        "used_fallback", TRUE)

\* analyze_video_task, the except block
TaskExcept(rec) ==
    Put(Put(Put(rec, "status", "completed"), "data", generate_fallback),
        "used_fallback", TRUE)

\* mutant of TaskCompleted: the status is written, the data is not
TaskCompletedStatusOnly(rec, result) == Put(rec, "status", "completed")

\* analyze_video_task, the two lines after fast_accurate_analysis returned
TaskCompleted(rec, result) ==
    Put(Put(rec, "status", "completed"), "data", result)

\* mutant of AnalysisStarted: the checkpoint restarts the count
AnalysisStartedResets(rec) == Put(rec, "progress", 0)

\* fast_accurate_analysis up to the await of the model call
AnalysisStarted(rec) == Put(rec, "progress", ProgressSampled)

\* what the model call can end with
ModelOutcomes ==
    {Raised("model call failed")} \cup {Returned(text) : text \in ModelResponses}

\* mutant of ResultData: the frames are not attached
ResultDataUnattached(rep, frs) ==
    validate_analysis(extract_json_from_text(rep.val).val)

\* result_data once validated and with the frames attached to both lists
ResultData(rep, frs) ==
    LET data == validate_analysis(extract_json_from_text(rep.val).val)
    IN  [data EXCEPT
           !.missed_opportunities = attach_frames_to_events(@, frs),
           !.key_moments = attach_frames_to_events(@, frs)]

\* the step of fast_accurate_analysis that raises, after the model call
\* ended with rep and with the sampled frames frs ("none": nothing raises)
StageOf(rep, frs) ==
    IF ~rep.ok THEN "model"
    ELSE LET ex == extract_json_from_text(rep.val)
         IN  IF ~ex.ok THEN "extract"
             ELSE IF ValidateRaises(ex.val) THEN "validate"
             ELSE IF ConstructRaises(ResultData(rep, frs)) THEN "construct"
             ELSE "none"

\* what fast_accurate_analysis returns, dumped: result.model_dump()
DumpOf(rep, frs) ==
    IF StageOf(rep, frs) = "none" THEN model_dump(ResultData(rep, frs))
    ELSE model_dump(generate_fallback)

\* StageOf and DumpOf, computed once for every input of the model
StageTable == [rep \in ModelOutcomes |-> [frs \in SamplerOutputs |-> StageOf(rep, frs)]]
DumpTable == [rep \in ModelOutcomes |-> [frs \in SamplerOutputs |-> DumpOf(rep, frs)]]
Stage(rep, frs) == StageTable[rep][frs]
AnalysisDump(rep, frs) == DumpTable[rep][frs]

\* the progress checkpoints fast_accurate_analysis passes after the model call
AnalysisProgress(rec, stage) ==
    IF stage = "model" THEN rec
    ELSE IF stage \in {"extract", "validate"}
         THEN Put(rec, "progress", ProgressModelReturned)
    ELSE Put(rec, "progress", ProgressAttached)

\* mutant of AnalysisExcept: the fallback is returned without the flag
AnalysisExceptNoFlag(rec) == rec

\* fast_accurate_analysis, the except block
AnalysisExcept(rec) == Put(rec, "used_fallback", TRUE)

\* the record fast_accurate_analysis leaves behind
AnalysisRecord(rec, rep, frs) ==
    LET stage == Stage(rep, frs)
        r == AnalysisProgress(rec, stage)
    IN  IF stage = "none" THEN r ELSE AnalysisExcept(r)

\* analyze_complete, the return of the try block
SyncResponse(rec, result) ==
    [status |-> "completed", data |-> result,
     used_fallback |-> Get(rec, "used_fallback", FALSE),
     method |-> "smart_weighted_frames"]

\* analyze_complete, the return of the except block
SyncExceptResponse ==
    [status |-> "completed_with_fallback", data |-> generate_fallback,
     error |-> "Frame extraction failed", used_fallback |-> TRUE]

\* mutant of os_remove: the file is left behind
os_remove_skipped(fs, p) == fs

\* os.remove(path) inside try/except: the files left
os_remove(fs, p) == fs \ {p}

(***************************************************************************)
(* Actions.                                                                *)
(***************************************************************************)
\* POST /upload: writes a new, uuid-named file
Upload ==
    /\ polled' = Null
    /\ UNCHANGED unitVars
    /\ uploads < MaxUploads
    /\ uploads' = uploads + 1
    /\ files' = files \cup {uploads + 1}
    /\ UNCHANGED <<db, pc, kind, path, extracted, reply, response, attempts, cleanups, removed>>

\* POST /analyze with video_file_name f, a name /upload returned
StartAnalysis(f) ==
    \E id \in FreshIds :
        /\ polled' = Null
        /\ UNCHANGED unitVars
        /\ db' = (id :> NewQueuedRecord) @@ db
        /\ pc' = [pc EXCEPT ![id] = "queued"]
        /\ kind' = [kind EXCEPT ![id] = "analyze"]
        /\ path' = [path EXCEPT ![id] = f]
        /\ UNCHANGED <<files, uploads, extracted, reply, response, attempts, cleanups, removed>>

\* analyze_video_task from its start to the await of the frame extraction
TaskStart(j) ==
    /\ polled' = Null
    /\ UNCHANGED unitVars
    /\ pc[j] = "queued"
    /\ db' = [db EXCEPT ![j] = TaskStarted(@)]
    /\ pc' = [pc EXCEPT ![j] = "extracting"]
    /\ UNCHANGED <<files, uploads, kind, path, extracted, reply, response,
                   attempts, cleanups, removed>>

\* POST /analyze-complete from its start to the await of the frame extraction
AnalyzeComplete ==
    \E id \in FreshIds :
        /\ polled' = Null
        /\ UNCHANGED unitVars
        /\ files' = files \cup {FileOfSync(id)}
        /\ db' = (id :> NewSyncRecord) @@ db
        /\ pc' = [pc EXCEPT ![id] = "extracting"]
        /\ kind' = [kind EXCEPT ![id] = "analyze_complete"]
        /\ path' = [path EXCEPT ![id] = FileOfSync(id)]
        /\ UNCHANGED <<uploads, extracted, reply, response, attempts,
                       cleanups, removed>>

\* extract_smart_weighted_frames in the executor: raises when the video
\* cannot be opened (no such file, or not a video), else returns its frames
ExtractFrames(j) ==
    /\ polled' = Null
    /\ UNCHANGED unitVars
    /\ pc[j] = "extracting"
    /\ \E out \in {Raised("Frame extraction failed")}
                    \cup {Returned(frs) : frs \in SamplerOutputs} :
          /\ path[j] \notin files => ~out.ok
          /\ extracted' = [extracted EXCEPT ![j] = out]
    /\ pc' = [pc EXCEPT ![j] = "extracted"]
    /\ UNCHANGED <<db, files, uploads, kind, path, reply, response, attempts, cleanups, removed>>

\* the finally block: os.remove(path), any error of it swallowed
Cleanup(j) ==
    /\ files' = os_remove(files, path[j])
    /\ cleanups' = [cleanups EXCEPT ![j] = @ + 1]
    /\ removed' = [f \in FileNames |->
                     IF f \in files /\ f \notin files' THEN removed[f] + 1
                     ELSE removed[f]]

\* the coroutine resumes with the frames: fast_accurate_analysis runs to the
\* await of the model call
ExtractionReturned(j) ==
    /\ polled' = Null
    /\ UNCHANGED unitVars
    /\ pc[j] = "extracted"
    /\ extracted[j].ok
    /\ db' = [db EXCEPT ![j] = AnalysisStarted(@)]
    /\ pc' = [pc EXCEPT ![j] = "calling"]
    /\ UNCHANGED <<files, uploads, kind, path, extracted, reply, response,
                   attempts, cleanups, removed>>

\* the coroutine resumes with the exception of the frame extraction:
\* the except block and the finally block of the handler
ExtractionRaised(j) ==
    /\ polled' = Null
    /\ UNCHANGED unitVars
    /\ pc[j] = "extracted"
    /\ ~extracted[j].ok
    /\ \/ /\ kind[j] = "analyze"
          /\ db' = [db EXCEPT ![j] = TaskExcept(@)]
          /\ UNCHANGED response
       \/ /\ kind[j] = "analyze_complete"
          /\ response' = [response EXCEPT ![j] = SyncExceptResponse]
          /\ UNCHANGED db
    /\ Cleanup(j)
    /\ pc' = [pc EXCEPT ![j] = "done"]
    /\ UNCHANGED <<uploads, kind, path, extracted, reply, attempts>>

\* model.generate_content in the executor returns a text or raises, and the
\* coroutine resumes: the rest of fast_accurate_analysis, then the rest of
\* the handler with its finally block
ModelCallEnded(j) ==
    /\ polled' = Null
    /\ UNCHANGED unitVars
    /\ pc[j] = "calling"
    /\ \E out \in ModelOutcomes :
          /\ reply' = [reply EXCEPT ![j] = out]
          /\ LET rec == AnalysisRecord(db[j], out, extracted[j].val)
                 result == AnalysisDump(out, extracted[j].val)
             IN  \/ /\ kind[j] = "analyze"
                    /\ db' = [db EXCEPT ![j] = TaskCompleted(rec, result)]
                    /\ UNCHANGED response
                 \/ /\ kind[j] = "analyze_complete"
                    /\ db' = [db EXCEPT ![j] = rec]
                    /\ response' = [response EXCEPT ![j] = SyncResponse(rec, result)]
    /\ attempts' = [attempts EXCEPT ![j] = @ + 1]
    /\ Cleanup(j)
    /\ pc' = [pc EXCEPT ![j] = "done"]
    /\ UNCHANGED <<uploads, kind, path, extracted>>

\* model.generate_content never returns: nothing bounds the call, and the
\* coroutine stays at its await
GenerateContentHangs(j) ==
    /\ polled' = Null
    /\ UNCHANGED unitVars
    /\ pc[j] = "calling"
    /\ attempts' = [attempts EXCEPT ![j] = @ + 1]
    /\ pc' = [pc EXCEPT ![j] = "hung"]
    /\ UNCHANGED <<db, files, uploads, kind, path, extracted, reply, response,
                   cleanups, removed>>

\* get_status: the response for analysis_id j
get_status(j) ==
    IF Has(db, j) THEN [code |-> 200, body |-> db[j]] ELSE [code |-> 404]

\* GET /status/{analysis_id}; the response is gone once the event loop runs
\* the next step of any handler
GetStatus(j) ==
    /\ polled' = get_status(j)
    /\ UNCHANGED unitVars
    /\ UNCHANGED <<db, files, uploads, pc, kind, path, extracted, reply,
                   response, attempts, cleanups, removed>>

Step(j) ==
    \/ TaskStart(j)
    \/ ExtractFrames(j)
    \/ ExtractionReturned(j)
    \/ ExtractionRaised(j)
    \/ ModelCallEnded(j)

\* the handlers that change the registry or the files
Serve ==
    \/ Upload
    \/ \E f \in 1..uploads : StartAnalysis(f)
    \/ AnalyzeComplete
    \/ \E j \in JobIds : Step(j)
    \/ \E j \in JobIds : GenerateContentHangs(j)

Next ==
    \/ Serve
    \/ \E j \in JobIds : GetStatus(j)

Spec == Init /\ [][Next]_vars

\* Liveness: the event loop resumes every coroutine that can run, and the
\* executor runs every call handed to it.  Status polls only read the
\* registry and are left out of this specification.
FairSpec == Init /\ [][Serve]_vars /\ \A j \in JobIds : WF_vars(Step(j))

(***************************************************************************)
(* The functions of the pipeline called on their own: the initial state    *)
(* holds one call with its argument, and the one step runs it.             *)
(***************************************************************************)
\* bounds of the arguments
MaxFrames == 61
MaxFps == 2
MaxTextLen == 4

\* the positions cv2 can decode of a video of total_frames frames: all,
\* none, all but the last, the last only, one frame off the sampling grid;
\* a container that reports no frame may still yield one at the seek to -1
ReadablePatterns(total_frames) ==
    { 0..(total_frames - 1), {}, 0..(total_frames - 2),
      {total_frames - 1} \cap 0..(total_frames - 1),
      {1} \cap 0..(total_frames - 1) }
      \cup (IF total_frames = 0 THEN {{-1}} ELSE {})

\* a file that is not a video, and the videos that open
Videos ==
    { [opens |-> FALSE, fps |-> 0, total_frames |-> 0, readable |-> {}] }
      \cup UNION { { [opens |-> TRUE, fps |-> f, total_frames |-> t, readable |-> r] :
                       r \in ReadablePatterns(t) } :
                   f \in 0..MaxFps, t \in 0..MaxFrames }

\* the raw texts of at most MaxTextLen tokens, and one of prose longer than
\* the snippet of the error message
TextAlphabet == {LB, RB, QLB, QRB, WS, Word, Fence, JsonTag, Members(ObjScoreOnly)}
LongProse == [i \in 1..(SnippetLen + 1) |-> Word]
Texts == UNION { [1..n -> TextAlphabet] : n \in 0..MaxTextLen } \cup {LongProse}

\* a field the model may leave out of its object
Absent == [has |-> FALSE]
Given(v) == [has |-> TRUE, v |-> v]
PutGiven(d, k, opt) == IF opt.has THEN Put(d, k, opt.v) ELSE d

ScoreOptions == {Absent, Given(Num(-5)), Given(Num(82)), Given(Num(150)), Given(Str("85"))}
SkillOptions ==
    {Absent,
     Given([offense |-> 85, defense |-> 78, guard |-> 70, passing |-> 66, standup |-> 60]),
     Given([offense |-> 150, defense |-> 78, guard |-> -3, passing |-> 66, standup |-> 60]),
     Given([offense |-> 70, guard |-> 60])}
DrillNamed(n) == [name |-> n, focus_area |-> "a", reason |-> "r"]
DrillOptions ==
    {Absent,
     Given(<<DrillNamed("d1"), DrillNamed("d2")>>),
     Given(<<DrillNamed("d1"), DrillNamed("d2"), DrillNamed("d3")>>),
     Given(<<DrillNamed("d1"), DrillNamed("d2"), DrillNamed("d3"), DrillNamed("d4")>>)}
NotesOptions ==
    {Absent,
     Given("Nice work."),
     Given("Keep your elbows tight and recover guard earlier."),
     Given("Keep your elbows tight and recover guard earlier!!"),
     Given("You finished the armbar cleanly; keep the elbows tight when passing.")}

\* scores at the bounds of the range and at the thresholds of the labels
ThresholdScores == {0, 59, 60, 74, 75, 84, 85, 100}
ScoreObjects ==
    { Put(base, "overall_score", Num(n)) :
        base \in {EmptyObj, ObjFull}, n \in ThresholdScores }

\* lists of 0 to 4 entries for strengths and weaknesses
ListOptions ==
    {Absent, Given(<<>>), Given(<<"x1">>), Given(<<"x1", "x2">>),
     Given(<<"x1", "x2", "x3">>), Given(<<"x1", "x2", "x3", "x4">>)}
ListObjects ==
    { PutGiven(PutGiven(base, "strengths", st), "weaknesses", wk) :
        base \in {EmptyObj, ObjFull}, st \in ListOptions, wk \in ListOptions }

\* the objects handed to validate_analysis: nothing or a full object, with
\* the fields under study left as they are or supplied
ModelObjects ==
    { PutGiven(PutGiven(PutGiven(PutGiven(base, "overall_score", sc),
                                 "skill_breakdown", sk),
                        "recommended_drills", dr), "coach_notes", nt) :
        base \in {EmptyObj, ObjFull}, sc \in ScoreOptions, sk \in SkillOptions,
        dr \in DrillOptions, nt \in NotesOptions }
      \cup ScoreObjects \cup ListObjects

\* the frame of second sec of a video of one frame a second
FrameOfSecond(sec) ==
    extract_frame_at_index(
        [opens |-> TRUE, fps |-> 1, total_frames |-> sec + 1, readable |-> {sec}],
        sec)
\* frame sequences: none, the sampler's, and two with frames equally far
\* from second 9
FrameSequences ==
    { <<>>, <<FrameOfSecond(2), FrameOfSecond(10), FrameOfSecond(40)>>,
      <<FrameOfSecond(8), FrameOfSecond(10)>>,
      <<FrameOfSecond(10), FrameOfSecond(8)>> }

\* events: times that parse, one that does not, none, an empty one, a number
EventTimes ==
    {Given(Str(<<"0", "0", ":", "0", "9">>)), Given(Str(<<"0", ":", "3", "9">>)),
     Given(Str(<<"s", "o", "o", "n">>)), Given(Str(<<>>)), Given(Num(9)), Absent}
EventOptions ==
    { PutGiven([title |-> "t", description |-> "d"], "time", tm) : tm \in EventTimes }
MaxEvents == 2
EventLists == UNION { [1..n -> EventOptions] : n \in 0..MaxEvents }

UnitCalls ==
    { [fn |-> "extract_smart_weighted_frames", video |-> v] : v \in Videos }
      \cup { [fn |-> "extract_json_from_text", text |-> t] : t \in Texts }
      \cup { [fn |-> "validate_analysis", data |-> d] : d \in ModelObjects }
      \cup { [fn |-> "attach_frames_to_events", events |-> ev, frames |-> frs] :
                ev \in EventLists, frs \in FrameSequences }

UnitInit ==
    /\ ServerInit
    /\ call \in UnitCalls
    /\ ret = Pending

CallSampler ==
    /\ call.fn = "extract_smart_weighted_frames"
    /\ ret = Pending
    /\ ret' = extract_smart_weighted_frames(call.video)
    /\ UNCHANGED <<serverVars, call>>

CallExtractJson ==
    /\ call.fn = "extract_json_from_text"
    /\ ret = Pending
    /\ ret' = extract_json_from_text(call.text)
    /\ UNCHANGED <<serverVars, call>>

\* validate_analysis raises the TypeError of its first clamp, or returns
CallValidate ==
    /\ call.fn = "validate_analysis"
    /\ ret = Pending
    /\ ret' = IF ValidateRaises(call.data) THEN Raised("TypeError")
              ELSE Returned(validate_analysis(call.data))
    /\ UNCHANGED <<serverVars, call>>

\* attach_frames_to_events changes the events in place: ret holds the list
\* as the call leaves it
CallAttach ==
    /\ call.fn = "attach_frames_to_events"
    /\ ret = Pending
    /\ ret' = Returned(attach_frames_to_events(call.events, call.frames))
    /\ UNCHANGED <<serverVars, call>>

UnitNext == CallSampler \/ CallExtractJson \/ CallValidate \/ CallAttach

UnitSpec == UnitInit /\ [][UnitNext]_vars

(***************************************************************************)
(* Vocabulary of the properties.                                           *)
(***************************************************************************)
MaxAttempts == 3

IsAnalyze(j) == kind[j] = "analyze"
IsSync(j) == kind[j] = "analyze_complete"
Finished(j) == pc[j] = "done"
Completed(j) == Has(db, j) /\ db[j].status = "completed" /\ Has(db[j], "data")

\* the step of job j's pipeline that raised ("none": no step raised)
FailureOf(j) ==
    IF ~extracted[j].ok THEN "sampler" ELSE Stage(reply[j], extracted[j].val)

\* what the caller of finished job j gets: the record through /status, or
\* the response of /analyze-complete
FinalResult(j) == IF IsAnalyze(j) THEN db[j].data ELSE response[j].data
FinalStatus(j) == IF IsAnalyze(j) THEN db[j].status ELSE response[j].status
FinalFlag(j) ==
    IF IsAnalyze(j) THEN Get(db[j], "used_fallback", FALSE)
    ELSE response[j].used_fallback

\* r has every field fb has, with the same value (for the events of a list:
\* every field the event of fb has)
AgreesWith(r, fb) ==
    \A f \in DOMAIN fb :
        /\ Has(r, f)
        /\ IF f \in {"missed_opportunities", "key_moments"}
           THEN /\ Len(r[f]) = Len(fb[f])
                /\ \A i \in 1..Len(fb[f]) : \A g \in DOMAIN fb[f][i] :
                       Has(r[f][i], g) /\ r[f][i][g] = fb[f][i][g]
           ELSE r[f] = fb[f]

AllowedChange(old, new) ==
    \/ new = old
    \/ old = "queued" /\ new = "processing"
    \/ old = "processing" /\ new = "completed"

(***************************************************************************)
(* C1: every job submitted through /analyze eventually has status          *)
(* completed and a stored result, whichever step of the pipeline raises,   *)
(* unless its model call never returns.                                    *)
(***************************************************************************)
C1_AnalyzeJobCompletes ==
    \A j \in JobIds : IsAnalyze(j) ~> (Completed(j) \/ pc[j] = "hung")

\* a job of /analyze is completed although the construction of its
\* AnalysisResult raised, and another although its frame extraction raised
C1_Witness ==
    \E j, k \in JobIds :
        /\ IsAnalyze(j) /\ Finished(j) /\ Completed(j) /\ FailureOf(j) = "construct"
        /\ IsAnalyze(k) /\ Finished(k) /\ Completed(k) /\ FailureOf(k) = "sampler"

(***************************************************************************)
(* C2: no record stays in status processing once its request has ended,    *)
(* the record of /analyze-complete included.                               *)
(***************************************************************************)
C2_NoRecordLeftProcessing ==
    \A j \in JobIds : Finished(j) => db[j].status = "completed"

(***************************************************************************)
(* C3: a completed record returned by /status always holds a boolean       *)
(* used_fallback: true for the fallback, false for a model-derived result. *)
(***************************************************************************)
C3_StatusHasUsedFallback ==
    (polled # Null /\ polled.code = 200 /\ polled.body.status = "completed")
        => /\ Has(polled.body, "used_fallback")
           /\ polled.body.used_fallback \in BOOLEAN
           /\ polled.body.used_fallback
                 = AgreesWith(polled.body.data, generate_fallback)

(***************************************************************************)
(* C4 as stated: every record is created as queued, and its status only    *)
(* moves queued -> processing -> completed.                                *)
(***************************************************************************)
C4_CreatedQueued ==
    [][\A j \in JobIds :
         /\ (~Has(db, j) /\ Has(db', j)) => db'[j].status = "queued"
         /\ Has(db, j) => (Has(db', j) /\ AllowedChange(db[j].status, db'[j].status))
      ]_vars

(***************************************************************************)
(* C4 amended: a record is created as queued by /analyze and as processing *)
(* by /analyze-complete; the only changes of status are queued ->          *)
(* processing and processing -> completed, and completed is final.         *)
(***************************************************************************)
C4_StatusMachine ==
    [][\A j \in JobIds :
         /\ (~Has(db, j) /\ Has(db', j)) =>
               db'[j].status = (IF kind'[j] = "analyze" THEN "queued" ELSE "processing")
         /\ Has(db, j) => (Has(db', j) /\ AllowedChange(db[j].status, db'[j].status))
      ]_vars

\* a background job went through to completed on its except path while a
\* record made by /analyze-complete is in processing
C4_Witness ==
    \E j, k \in JobIds :
        /\ IsAnalyze(j) /\ Completed(j) /\ FailureOf(j) = "sampler"
        /\ IsSync(k) /\ db[k].status = "processing"

(***************************************************************************)
(* C5: a failure at any stage is reported with status exactly completed    *)
(* and used_fallback true, through /status and by /analyze-complete.       *)
(***************************************************************************)
C5_FailureReportedCompleted ==
    \A j \in JobIds :
        (Finished(j) /\ FailureOf(j) # "none")
            => (FinalStatus(j) = "completed" /\ FinalFlag(j) = TRUE)

(***************************************************************************)
(* C6: used_fallback is true exactly when the final result is the output   *)
(* of generate_fallback(): if any step raised, the result agrees with      *)
(* generate_fallback() field for field and the flag is true; if none       *)
(* raised, the flag is not true and the result is the validated model      *)
(* object with its frames attached.                                        *)
(***************************************************************************)
C6_FallbackExactlyOnFailure ==
    \A j \in JobIds :
        Finished(j) =>
            IF FailureOf(j) # "none"
            THEN /\ FinalFlag(j) = TRUE
                 /\ AgreesWith(FinalResult(j), generate_fallback)
            ELSE /\ FinalFlag(j) = FALSE
                 /\ FinalResult(j) = model_dump(ResultData(reply[j], extracted[j].val))

\* one job fell back on an empty model response, another delivered the
\* model's result, which is not the fallback
C6_Witness ==
    \E j, k \in JobIds :
        /\ Finished(j) /\ extracted[j].ok /\ reply[j] = Returned(RespEmpty)
        /\ FinalFlag(j) = TRUE
        /\ Finished(k) /\ FailureOf(k) = "none" /\ FinalFlag(k) = FALSE
        /\ ~AgreesWith(FinalResult(k), generate_fallback)

(***************************************************************************)
(* C7: the progress of a record is an integer in 0..100 and never          *)
(* decreases.                                                              *)
(***************************************************************************)
C7_ProgressMonotone ==
    [][\A j \in JobIds :
         /\ Has(db', j) => db'[j].progress \in 0..100
         /\ Has(db, j) => (Has(db', j) /\ db'[j].progress >= db[j].progress)
      ]_vars

\* a job ran to progress 100 and a job stopped at the checkpoint of the
\* model call
C7_Witness ==
    \E j, k \in JobIds :
        /\ Finished(j) /\ db[j].progress = ProgressAttached
        /\ Finished(k) /\ IsAnalyze(k) /\ FailureOf(k) = "model"
        /\ db[k].progress = ProgressSampled

C9_HungCallFallsBack ==
    \A j \in JobIds :
        (IsAnalyze(j) /\ pc[j] = "hung")
            ~> (Completed(j) /\ Get(db[j], "used_fallback", FALSE) = TRUE)

(***************************************************************************)
(* C10: a failed analysis attempt is retried, and the fallback is used     *)
(* only after the third attempt has failed.                                *)
(***************************************************************************)
C10_FallbackAfterThreeAttempts ==
    \A j \in JobIds :
        (Finished(j) /\ FailureOf(j) \in {"model", "extract", "validate", "construct"})
            => attempts[j] = MaxAttempts

(***************************************************************************)
(* Vocabulary of the properties of the functions called on their own.      *)
(***************************************************************************)
\* the call of fn has run
Ran(fn) == call.fn = fn /\ ret # Pending
SamplerRan == Ran("extract_smart_weighted_frames")
ExtractRan == Ran("extract_json_from_text")
ValidateRan == Ran("validate_analysis") /\ ret.ok

\* the target total stated for a video of that duration
PlanTarget(video) ==
    IF video.fps = 0 \/ video.total_frames <= 30 * video.fps THEN 14
    ELSE IF video.total_frames <= 60 * video.fps THEN 16
    ELSE 18
MinimumPlan == [start |-> 4, middle |-> 4, end |-> 6]

Ascending(frames) ==
    \A i \in 1..(Len(frames) - 1) : frames[i].second <= frames[i + 1].second

\* the objects of which text holds the text as a balanced pair of braces
ContainedObjects(text) ==
    LET starts == {i \in 1..Len(text) : text[i] = LB}
        ends == {j \in 1..Len(text) : text[j] = RB}
    IN  { json_loads(SubSeq(text, p[1], p[2])).val :
            p \in {q \in starts \X ends :
                     q[1] < q[2] /\ json_loads(SubSeq(text, q[1], q[2])).ok} }

SkillAxes == {"offense", "defense", "guard", "passing", "standup"}

(***************************************************************************)
(* C11: for every video that opens and has at least one decodable frame,   *)
(* extract_smart_weighted_frames returns a non-empty sequence of frames in *)
(* ascending order of their time in seconds.                               *)
(***************************************************************************)
C11_SamplerNonEmptyAscending ==
    (SamplerRan /\ call.video.opens /\ call.video.readable # {})
        => /\ ret.ok
           /\ ret.val.frames # <<>>
           /\ Ascending(ret.val.frames)

(***************************************************************************)
(* C12: the frame at index total_frames - 1 is always in the sequence the  *)
(* sampler returns, and exactly once, whether or not the loop of the end   *)
(* section sampled that index.                                             *)
(***************************************************************************)
C12_LastFrameExactlyOnce ==
    (SamplerRan /\ call.video.opens /\ call.video.total_frames >= 1)
        => /\ ret.ok
           /\ Cardinality({k \in 1..Len(ret.val.frames) :
                 ret.val.frames[k].frame_idx = call.video.total_frames - 1}) = 1

C14_EndGetsFortyPercent ==
    (SamplerRan /\ ret.ok) =>
        LET d == ret.val.metadata.distribution
        IN  /\ 100 * d.end >= 40 * (d.start + d.middle + d.end)
            /\ d.end >= 6
            /\ d.start >= 4

(***************************************************************************)
(* C15: extract_smart_weighted_frames raises when the video cannot be      *)
(* opened, and never raises for a video that opens with zero duration      *)
(* (frame rate 0 or no frame): it returns the minimum plan, start 4,       *)
(* middle 4, end 6, with the frames it could read, possibly none.          *)
(***************************************************************************)
C15_ZeroDurationReturns ==
    SamplerRan =>
        /\ ~call.video.opens => ~ret.ok
        /\ (call.video.opens /\ (call.video.fps = 0 \/ call.video.total_frames = 0))
              => /\ ret.ok
                 /\ ret.val.metadata.distribution = MinimumPlan
                 /\ ret.val.metadata.duration = 0
                 /\ ret.val.metadata.frames_extracted = Len(ret.val.frames)

\* the sampler ran on a video that opens, reports no frame rate and has
\* frames cv2 decodes: it returned, with no frame
C15_Witness ==
    /\ SamplerRan /\ ret.ok
    /\ call.video.opens /\ call.video.fps = 0
    /\ call.video.total_frames > 0
    /\ call.video.readable = 0..(call.video.total_frames - 1)
    /\ ret.val.frames = <<>>

(***************************************************************************)
(* C16: for every raw text that holds a balanced JSON object anywhere,     *)
(* extract_json_from_text succeeds and returns that object, whatever the   *)
(* prose around it, with or without code fences.                           *)
(***************************************************************************)
C16_ExtractsAnyEmbeddedObject ==
    (ExtractRan /\ ContainedObjects(call.text) # {})
        => /\ ret.ok
           /\ ret.val \in ContainedObjects(call.text)

(***************************************************************************)
(* C17: when no step of extract_json_from_text succeeds, the error carries *)
(* the first 300 characters of the stripped raw response, on every failure *)
(* path.                                                                   *)
(***************************************************************************)
C17_ErrorCarriesRawSnippet ==
    (ExtractRan /\ ~ret.ok) =>
        LET text == Strip(call.text)
        IN  ret.msg = SubSeq(text, 1, Min2(SnippetLen, Len(text)))

(***************************************************************************)
(* C18: after validate_analysis every axis of skill_breakdown is present   *)
(* and lies in 0..100, also when the model supplied skill_breakdown.       *)
(***************************************************************************)
C18_SkillAxesInRange ==
    ValidateRan =>
        /\ SkillAxes \subseteq DOMAIN ret.val.skill_breakdown
        /\ \A a \in DOMAIN ret.val.skill_breakdown :
               ret.val.skill_breakdown[a] \in 0..100

(***************************************************************************)
(* C19: after validate_analysis recommended_drills holds exactly 3 drills, *)
(* for a list of more than 3 supplied drills too.                          *)
(***************************************************************************)
C19_ExactlyThreeDrills ==
    ValidateRan => Len(ret.val.recommended_drills) = 3

(***************************************************************************)
(* C20: after validate_analysis coach_notes is present and at least 50     *)
(* characters long, the fixed fallback sentence included.                  *)
(***************************************************************************)
C20_NotesAtLeastFifty ==
    ValidateRan =>
        /\ Has(ret.val, "coach_notes")
        /\ Len(ret.val.coach_notes) >= MinNotesLen

(***************************************************************************)
(* Vocabulary of the properties of validate_analysis and of the frame      *)
(* attachment.                                                             *)
(***************************************************************************)
AttachRan == Ran("attach_frames_to_events") /\ ret.ok

\* the label stated for a score
StatedLabel(score) ==
    IF score >= 85 THEN "EXCELLENT PERFORMANCE"
    ELSE IF score >= 75 THEN "STRONG PERFORMANCE"
    ELSE IF score >= 60 THEN "SOLID PERFORMANCE"
    ELSE "DEVELOPING PERFORMANCE"

\* an object that is already valid and in range
FullyValid(d) ==
    /\ ResultFields \subseteq DOMAIN d
    /\ d.overall_score.t = "num" /\ d.overall_score.v \in 0..100
    /\ SkillAxes \subseteq DOMAIN d.skill_breakdown
    /\ \A a \in SkillAxes : d.skill_breakdown[a] \in 0..100
    /\ Len(d.strengths) = 3 /\ Len(d.weaknesses) = 3
    /\ Len(d.recommended_drills) = 3
    /\ d.missed_opportunities # <<>> /\ d.key_moments # <<>>
    /\ Len(d.coach_notes) >= 50

\* the time of the event is a string that parses
TimeParses(event) ==
    /\ Has(event, "time") /\ event.time.t = "str"
    /\ parse_time_to_seconds(event.time) # NoTime

\* frame k of frames is the closest to the time of the event, and the first
\* of the sequence that is so
ClosestFirst(event, frames, k) ==
    LET dist(i) == Abs(frames[i].second - 100 * parse_time_to_seconds(event.time))
    IN  /\ \A i \in 1..Len(frames) : dist(k) <= dist(i)
        /\ \A i \in 1..(k - 1) : dist(k) < dist(i)

\* the event carries the image and the timestamp of one of the frames
CarriesFrameOf(event, frames) ==
    /\ Has(event, "frame_image") /\ Has(event, "frame_timestamp")
    /\ \E k \in 1..Len(frames) :
          /\ event.frame_image = B64(frames[k].bytes)
          /\ event.frame_timestamp = frames[k].timestamp

\* the frames of the result that come from the positions lo .. hi - 1
SampledIn(frames, lo, hi) ==
    Cardinality({k \in 1..Len(frames) :
                    frames[k].frame_idx >= lo /\ frames[k].frame_idx < hi})

(***************************************************************************)
(* C21: after validate_analysis overall_score is in 0..100 (65 when        *)
(* missing, else the supplied number clamped); a missing performance_label *)
(* is derived from the clamped score by the thresholds 85, 75 and 60, and  *)
(* a supplied label is kept.                                               *)
(***************************************************************************)
C21_ScoreClampedLabelDerived ==
    ValidateRan =>
        LET in == call.data
            out == ret.val
            stated == IF ~Has(in, "overall_score") THEN 65
                      ELSE IF in.overall_score.v < 0 THEN 0
                      ELSE IF in.overall_score.v > 100 THEN 100
                      ELSE in.overall_score.v
        IN  /\ out.overall_score = Num(stated)
            /\ stated \in 0..100
            /\ Has(out, "performance_label")
            /\ out.performance_label =
                  (IF Has(in, "performance_label") THEN in.performance_label
                   ELSE StatedLabel(stated))

\* a supplied score of 150 with no label came back as 100 and EXCELLENT
C21_Witness ==
    /\ ValidateRan
    /\ Has(call.data, "overall_score") /\ call.data.overall_score = Num(150)
    /\ ~Has(call.data, "performance_label")
    /\ ret.val.overall_score = Num(100)
    /\ ret.val.performance_label = "EXCELLENT PERFORMANCE"

(***************************************************************************)
(* C22: after validate_analysis strengths and weaknesses hold exactly 3    *)
(* entries: an absent or shorter list is replaced by the default list of   *)
(* the field, a list of 3 or more becomes its first 3 entries in order.    *)
(***************************************************************************)
C22_ListsReplacedOrTruncated ==
    ValidateRan =>
        \A f \in {"strengths", "weaknesses"} :
            LET default == IF f = "strengths" THEN DefaultStrengths
                           ELSE DefaultWeaknesses
            IN  /\ Has(ret.val, f) /\ Len(ret.val[f]) = 3
                /\ ret.val[f] =
                      (IF ~Has(call.data, f) \/ Len(call.data[f]) < 3 THEN default
                       ELSE SubSeq(call.data[f], 1, 3))

\* two supplied strengths were replaced by the defaults and four supplied
\* weaknesses cut to the first three
C22_Witness ==
    /\ ValidateRan
    /\ Has(call.data, "strengths") /\ Len(call.data.strengths) = 2
    /\ Has(call.data, "weaknesses") /\ Len(call.data.weaknesses) = 4
    /\ ret.val.strengths = DefaultStrengths
    /\ ret.val.weaknesses = <<"x1", "x2", "x3">>

(***************************************************************************)
(* C23: validate_analysis changes nothing of an object that is already     *)
(* fully valid and in range: every field of the output equals the input.   *)
(***************************************************************************)
C23_ValidObjectUnchanged ==
    (ValidateRan /\ FullyValid(call.data)) => ret.val = call.data

\* a valid object whose notes have exactly the minimum length came back
\* unchanged
C23_Witness ==
    /\ ValidateRan /\ FullyValid(call.data)
    /\ Len(call.data.coach_notes) = 50
    /\ ret.val = call.data

(***************************************************************************)
(* C24: for every event whose time parses and every non-empty frame        *)
(* sequence, attach_frames_to_events gives the event the image and the     *)
(* timestamp of the frame closest in time, the first of the sequence when  *)
(* two are equally close.                                                  *)
(***************************************************************************)
C24_ClosestFrameAttached ==
    (AttachRan /\ call.frames # <<>>) =>
        \A i \in 1..Len(call.events) :
            TimeParses(call.events[i]) =>
                \E k \in 1..Len(call.frames) :
                    /\ ClosestFirst(call.events[i], call.frames, k)
                    /\ ret.val[i].frame_image = B64(call.frames[k].bytes)
                    /\ ret.val[i].frame_timestamp = call.frames[k].timestamp

\* an event at 00:09 with frames at 8 and 10, equally close: it got the
\* frame at 8, the first of the sequence
C24_Witness ==
    /\ AttachRan
    /\ call.frames = <<FrameOfSecond(8), FrameOfSecond(10)>>
    /\ Len(call.events) >= 1 /\ TimeParses(call.events[1])
    /\ parse_time_to_seconds(call.events[1].time) = 9
    /\ ret.val[1].frame_image = B64(8)

C26_SectionsStopAtTarget ==
    (SamplerRan /\ ret.ok) =>
        LET d == ret.val.metadata.distribution
            n == call.video.total_frames
            frames == ret.val.frames
        IN  /\ SampledIn(frames, 0, (2 * n) \div 10) <= d.start
            /\ SampledIn(frames, (2 * n) \div 10, (8 * n) \div 10) <= d.middle
            /\ SampledIn(frames, (8 * n) \div 10, n) <= d.end + 1
            /\ Len(frames) <= d.start + d.middle + d.end + 1

(***************************************************************************)
(* C27: jobs in flight do not interfere through the input file: no step    *)
(* removes the file of a job of /analyze whose frame extraction has not    *)
(* read it yet.                                                            *)
(***************************************************************************)
C27_FileKeptUntilRead ==
    [][\A j \in JobIds :
         (IsAnalyze(j) /\ pc[j] \in {"queued", "extracting"} /\ path[j] \in files)
            => path[j] \in files']_vars

(***************************************************************************)
(* C28: a status poll never sees a half-written terminal state: a record   *)
(* with status completed holds its data, in the registry and in every      *)
(* response of /status.                                                    *)
(***************************************************************************)
C28_CompletedHasData ==
    /\ \A j \in JobIds :
          (Has(db, j) /\ db[j].status = "completed") => Has(db[j], "data")
    /\ (polled # Null /\ polled.code = 200 /\ polled.body.status = "completed")
          => Has(polled.body, "data")

\* a poll returned a completed record with its data, one job having
\* completed on the success path and one on the exception path
C28_Witness ==
    /\ polled # Null /\ polled.code = 200
    /\ polled.body.status = "completed" /\ Has(polled.body, "data")
    /\ \E j, k \in JobIds :
          /\ IsAnalyze(j) /\ Finished(j) /\ FailureOf(j) = "none"
          /\ IsAnalyze(k) /\ Finished(k) /\ FailureOf(k) = "sampler"

(***************************************************************************)
(* C29: in every result delivered without fallback by a run that sampled   *)
(* at least one frame, every event of missed_opportunities and key_moments *)
(* whose time parses carries the image and the timestamp of one of the     *)
(* run's frames, the placeholder event of the schema defaults included.    *)
(***************************************************************************)
C29_DeliveredEventsCarryFrames ==
    \A j \in JobIds :
        (Finished(j) /\ extracted[j].ok /\ extracted[j].val # <<>>
           /\ FinalFlag(j) # TRUE)
            => \A f \in {"missed_opportunities", "key_moments"} :
                  \A i \in 1..Len(FinalResult(j)[f]) :
                      TimeParses(FinalResult(j)[f][i])
                          => CarriesFrameOf(FinalResult(j)[f][i], extracted[j].val)

\* a job delivered the model's object, which held a score only: the
\* placeholder event at 00:30 carries the frame of second 40
C29_Witness ==
    \E j \in JobIds :
        /\ Finished(j) /\ extracted[j].ok /\ reply[j] = Returned(RespFenced)
        /\ FinalFlag(j) = FALSE
        /\ FinalResult(j).key_moments[1].title = "Key Moment"
        /\ FinalResult(j).key_moments[1].frame_image = B64(40)

====
